---- MODULE Spec2Model ----
(***************************************************************************)
(* A model of src/bot.py: the Namshi product bot.                          *)
(*                                                                         *)
(* Text is modelled as a sequence of atoms.  An atom is a single character *)
(* or an indivisible fragment of a literal ("http", "width=", "pzsku"); the *)
(* atom boundaries are chosen so that every pattern the code searches for   *)
(* is a sequence of whole atoms.  Substring search, split, strip, lower and *)
(* int() are computed on these sequences the way Python computes them on    *)
(* strings.                                                                 *)
(***************************************************************************)
EXTENDS Integers, Sequences, FiniteSets, TLC

VARIABLES
    \* extract_product_info, step by step (its locals)
    epc, url, soup, name, price, sizes, image_urls, result,
    \* handle_message (its locals and the calls it has made)
    pc, message_text, product_info, idx, media_group, batch_start,
    sent, requests, failures

evars == <<epc, url, soup, name, price, sizes, image_urls, result>>
hvars == <<pc, message_text, product_info, idx, media_group, batch_start,
           sent, requests, failures>>
vars == <<epc, url, soup, name, price, sizes, image_urls, result,
          pc, message_text, product_info, idx, media_group, batch_start,
          sent, requests, failures>>

----------------------------------------------------------------------------
(* Python string operations on atom sequences *)

\* s[k:k+len(pat)] == pat
MatchAt(pat, s, k) ==
    /\ k >= 1
    /\ k + Len(pat) - 1 <= Len(s)
    /\ \A j \in 1..Len(pat) : s[k + j - 1] = pat[j]

\* pat in s
Contains(pat, s) == \E k \in 1..(Len(s) + 1) : MatchAt(pat, s, k)

\* s.startswith(pat)
StartsWith(s, pat) == MatchAt(pat, s, 1)

\* s.find(pat) + 1, or 0 when pat does not occur
Find(pat, s) ==
    IF Contains(pat, s)
    THEN CHOOSE k \in 1..(Len(s) + 1) :
            /\ MatchAt(pat, s, k)
            /\ \A j \in 1..(k - 1) : ~MatchAt(pat, s, j)
    ELSE 0

\* s.split(pat)[0]
SplitHead(s, pat) ==
    IF Contains(pat, s) THEN SubSeq(s, 1, Find(pat, s) - 1) ELSE s

\* pat.join(s.split(pat)[1:]), for s that contains pat
SplitTail(s, pat) == SubSeq(s, Find(pat, s) + Len(pat), Len(s))

\* s.split(pat)[1], for s that contains pat
SplitSecond(s, pat) == SplitHead(SplitTail(s, pat), pat)

Whitespace == {" ", "\n", "\t"}

RECURSIVE LStrip(_)
LStrip(s) ==
    IF s # <<>> /\ Head(s) \in Whitespace THEN LStrip(Tail(s)) ELSE s

RECURSIVE RStrip(_)
RStrip(s) ==
    IF s # <<>> /\ s[Len(s)] \in Whitespace
    THEN RStrip(SubSeq(s, 1, Len(s) - 1))
    ELSE s

\* s.strip()
Strip(s) == RStrip(LStrip(s))

\* str.lower() on one atom
LowerAtom(a) ==
    CASE a = "P" -> "p"
      [] a = "PZSKU" -> "pzsku"
      [] a = "Product" -> "product"
      [] a = "Namshi-Logo" -> "namshi-logo"
      [] OTHER -> a

\* s.lower()
Lower(s) == [k \in 1..Len(s) |-> LowerAtom(s[k])]

Digits == <<"0", "1", "2", "3", "4", "5", "6", "7", "8", "9">>

IsDigit(a) == \E d \in 1..10 : Digits[d] = a

DigitValue(a) == (CHOOSE d \in 1..10 : Digits[d] = a) - 1

RECURSIVE DecimalValue(_)
DecimalValue(s) ==
    IF s = <<>> THEN 0
    ELSE 10 * DecimalValue(SubSeq(s, 1, Len(s) - 1)) + DigitValue(s[Len(s)])

\* int(s): surrounding whitespace and one sign are accepted, then digits only;
\* anything else is a ValueError (ok = FALSE)
IntParse(s) ==
    LET t == Strip(s)
        signed == t # <<>> /\ Head(t) \in {"-", "+"}
        body == IF signed THEN Tail(t) ELSE t
        valid == body # <<>> /\ \A k \in 1..Len(body) : IsDigit(body[k])
    IN  IF ~valid THEN [ok |-> FALSE, val |-> 0]
        ELSE [ok |-> TRUE,
              val |-> IF signed /\ Head(t) = "-"
                      THEN 0 - DecimalValue(body)
                      ELSE DecimalValue(body)]

\* sep.join(parts)
RECURSIVE Join(_, _)
Join(sep, parts) ==
    IF parts = <<>> THEN <<>>
    ELSE IF Len(parts) = 1 THEN parts[1]
    ELSE parts[1] \o sep \o Join(sep, Tail(parts))

\* x in seq
InSeq(x, seq) == \E k \in 1..Len(seq) : seq[k] = x

----------------------------------------------------------------------------
(* Literals of the source *)

HTTP == <<"http">>
WIDTH == <<"width=">>
WIDTH_800 == <<"width=", "8", "0", "0">>
P_MARK == <<"/", "p", "/">>
PZSKU == <<"pzsku">>
PZSKU_PATH == <<"/", "pzsku", "/">>
PRODUCT == <<"product">>
LOGO == <<"namshi-logo">>
MinWidth == 200

NAME_NOT_FOUND == <<"Product name not found">>
PRICE_NOT_FOUND == <<"Price not found">>
NAME_ERROR == <<"Error extracting product name">>
PRICE_ERROR == <<"Error extracting price">>

TITLE_CLASS == <<"ProductConversion_", "productTitle", "__dvlc5">>
PRICE_CLASS == <<"ProductPrice_", "value", "__hnFSS">>
SIZE_CLASS == <<"SizePills_", "size_variant", "__4qpXf">>

----------------------------------------------------------------------------
(* extract_product_info: the parsed page (soup) is a record of the elements *)
(* the selectors look at, each list in document order:                      *)
(*   og_title  meta[property="og:title"]   [has_content, content]           *)
(*   h1        h1 elements                 [class, text]                    *)
(*   span      span elements               [class, text]                    *)
(*   button    button elements             [class, disabled, text]          *)
(*   img       img elements                [in_gallery, alt, has_src, src]  *)
(*   og_image  meta[property="og:image"]   [has_content, content]           *)

\* url.split('?')[0] if '?' in url else url
CleanUrl(u) == IF Contains(<<"?">>, u) THEN SplitHead(u, <<"?">>) ELSE u

HasTitleClass(e) == e.class = TITLE_CLASS
HasTitleSubstring(e) == Contains(<<"productTitle">>, e.class)

\* lines 63-71: the name strategies
ProductName(s) ==
    IF s.og_title # <<>> /\ s.og_title[1].has_content
    THEN Strip(SplitHead(s.og_title[1].content, <<"|">>))
    ELSE LET exact == SelectSeq(s.h1, HasTitleClass)
             loose == SelectSeq(s.h1, HasTitleSubstring)
             product_name == IF exact # <<>> THEN exact ELSE loose
         IN  IF product_name # <<>>
             THEN Strip(product_name[1].text)
             ELSE NAME_NOT_FOUND

HasPriceClass(e) == e.class = PRICE_CLASS
HasPriceSubstring(e) == Contains(<<"value">>, e.class)

\* lines 74-77: the price strategies
ProductPrice(s) ==
    LET exact == SelectSeq(s.span, HasPriceClass)
        loose == SelectSeq(s.span, HasPriceSubstring)
        price_element == IF exact # <<>> THEN exact ELSE loose
    IN  IF price_element # <<>>
        THEN Strip(price_element[1].text)
        ELSE PRICE_NOT_FOUND

EnabledSizeExact(e) == e.class = SIZE_CLASS /\ ~e.disabled
EnabledSizeLoose(e) == Contains(<<"size_variant">>, e.class) /\ ~e.disabled

\* lines 80-87: the texts of the size buttons that are not disabled
ProductSizes(s) ==
    LET exact == SelectSeq(s.button, EnabledSizeExact)
        loose == SelectSeq(s.button, EnabledSizeLoose)
        size_elements == IF exact # <<>> THEN exact ELSE loose
    IN  [k \in 1..Len(size_elements) |-> Strip(size_elements[k].text)]

\* 'src' in img.attrs and img['src'].startswith('http')
HasAbsoluteSrc(e) == e.has_src /\ StartsWith(e.src, HTTP)

\* lines 98-100 and 124-125: ask for width 800 when the URL names a width
UpgradeWidth(u) ==
    IF Contains(WIDTH, u) THEN SplitHead(u, WIDTH) \o WIDTH_800 ELSE u

InGallery(e) == e.in_gallery

\* lines 93-101: images of the gallery container
GalleryUrls(s) ==
    LET found == SelectSeq(SelectSeq(s.img, InGallery), HasAbsoluteSrc)
    IN  [k \in 1..Len(found) |-> UpgradeWidth(found[k].src)]

\* '/p/' in u or 'pzsku' in u
HasProductMarker(u) == Contains(P_MARK, u) \/ Contains(PZSKU, u)

MetaImageKept(e) ==
    /\ e.has_content
    /\ StartsWith(e.content, HTTP)
    /\ ~Contains(LOGO, Lower(e.content))
    /\ HasProductMarker(e.content)

\* lines 105-110: og:image annotations
MetaUrls(s) ==
    LET found == SelectSeq(s.og_image, MetaImageKept)
    IN  [k \in 1..Len(found) |-> found[k].content]

\* img[alt*="PUMA"], img[alt*="product"], img[alt*="Product"]
AltMatches(e) ==
    /\ e.has_alt
    /\ \/ Contains(<<"PUMA">>, e.alt)
       \/ Contains(<<"product">>, e.alt)
       \/ Contains(<<"Product">>, e.alt)

\* lines 115-118: the candidates of the third strategy
AltCandidates(s) == SelectSeq(SelectSeq(s.img, AltMatches), HasAbsoluteSrc)

\* int(image_url.split('width=')[1].split('&')[0])
WidthOf(u) == IntParse(SplitHead(SplitSecond(u, WIDTH), <<"&">>))

\* the width test with the boundary width let through
WideEnough_Inclusive(w) == w >= MinWidth

\* line 121: the width test of the third strategy
WideEnough(w) == w > MinWidth

\* lines 121-122: int() is evaluated whenever the URL names a width
AltRaises(e) == Contains(WIDTH, e.src) /\ ~WidthOf(e.src).ok

AltKept(e) ==
    \/ Contains(WIDTH, e.src) /\ WidthOf(e.src).ok /\ WideEnough(WidthOf(e.src).val)
    \/ HasProductMarker(e.src)

\* lines 113-126: [raised, urls]; a ValueError of int() leaves the function
\* through the handler of line 147
AltUrls(s) ==
    LET cands == AltCandidates(s)
        found == SelectSeq(cands, AltKept)
    IN  IF \E k \in 1..Len(cands) : AltRaises(cands[k])
        THEN [raised |-> TRUE, urls |-> <<>>]
        ELSE [raised |-> FALSE,
              urls |-> [k \in 1..Len(found) |-> UpgradeWidth(found[k].src)]]

\* a deduplication that collects first occurrences in reverse order
RECURSIVE Dedup_Prepend(_)
Dedup_Prepend(s) ==
    IF s = <<>> THEN <<>>
    ELSE LET init == Dedup_Prepend(SubSeq(s, 1, Len(s) - 1))
             last == s[Len(s)]
         IN  IF InSeq(last, init) THEN init ELSE <<last>> \o init

\* line 129: list(dict.fromkeys(image_urls))
RECURSIVE Dedup(_)
Dedup(s) ==
    IF s = <<>> THEN <<>>
    ELSE LET init == Dedup(SubSeq(s, 1, Len(s) - 1))
             last == s[Len(s)]
         IN  IF InSeq(last, init) THEN init ELSE Append(init, last)

\* line 135: any(pattern in url.lower() for pattern in [...])
LikelyProductImage(u) ==
    \/ Contains(P_MARK, Lower(u))
    \/ Contains(PZSKU, Lower(u))
    \/ Contains(PRODUCT, Lower(u))
    \/ Contains(PZSKU_PATH, Lower(u))

\* lines 132-136
FilterUrls(s) == SelectSeq(s, LikelyProductImage)

\* the filtered list kept even when it is empty
RevertIfEmpty_Never(filtered_urls, deduped) == filtered_urls

\* line 139
RevertIfEmpty(filtered_urls, deduped) ==
    IF filtered_urls # <<>> THEN filtered_urls ELSE deduped

\* lines 128-139: the image resolution step
Resolve(s) == RevertIfEmpty(FilterUrls(Dedup(s)), Dedup(s))

\* lines 149-154
ErrorRecord ==
    [name |-> NAME_ERROR, price |-> PRICE_ERROR, sizes |-> <<>>, image_urls |-> <<>>]

\* lines 90-126: the three image strategies, the first non-empty one wins
RawImages(s) ==
    IF GalleryUrls(s) # <<>> THEN [raised |-> FALSE, urls |-> GalleryUrls(s)]
    ELSE IF MetaUrls(s) # <<>> THEN [raised |-> FALSE, urls |-> MetaUrls(s)]
    ELSE AltUrls(s)

\* lines 55-154, given the outcome of the page fetch
extract_product_info(fetched, s) ==
    IF ~fetched \/ RawImages(s).raised THEN ErrorRecord
    ELSE [name |-> ProductName(s), price |-> ProductPrice(s),
          sizes |-> ProductSizes(s), image_urls |-> Resolve(RawImages(s).urls)]

----------------------------------------------------------------------------
(* Pages and URLs the model draws its inputs from *)

MaxImgs == 2
MaxMeta == 2
MaxH1 == 2
MaxSpans == 1
MaxButtons == 2

\* all sequences over S of length at most n
RECURSIVE SeqsUpTo(_, _)
SeqsUpTo(S, n) ==
    IF n = 0 THEN {<<>>}
    ELSE LET shorter == SeqsUpTo(S, n - 1)
         IN  shorter \cup {Append(q, x) : q \in shorter, x \in S}

CDN == <<"http", "s", "://", "cdn">>

SRC_MARKED == CDN \o <<"/", "p", "/", "a">>
SRC_MARKED_W100 == CDN \o <<"/", "p", "/", "a", "?", "width=", "1", "0", "0">>
SRC_MARKED_WBAD == CDN \o <<"/", "p", "/", "h", "?", "width=">>
SRC_W199 == CDN \o <<"/", "b", "?", "width=", "1", "9", "9">>
SRC_W200 == CDN \o <<"/", "b", "?", "width=", "2", "0", "0">>
SRC_W201 == CDN \o <<"/", "b", "?", "width=", "2", "0", "1">>
SRC_W300_AMP == CDN \o <<"/", "c", "?", "width=", "3", "0", "0", "&", "q", "=", "1">>
SRC_PLAIN == CDN \o <<"/", "d">>
SRC_WAUTO == CDN \o <<"/", "e", "?", "width=", "auto">>
SRC_RELATIVE == <<"/", "static", "/", "p", "/", "r">>
SRC_UPPER_SKU == CDN \o <<"/", "PZSKU", "/", "f">>
SRC_SKU == CDN \o <<"/", "pzsku", "/", "g">>
SRC_LOGO == CDN \o <<"/", "p", "/", "Namshi-Logo">>

Img(gallery, alt, src) ==
    [in_gallery |-> gallery, has_alt |-> alt # <<>>, alt |-> alt,
     has_src |-> TRUE, src |-> src]

ImgNoSrc == [in_gallery |-> TRUE, has_alt |-> FALSE, alt |-> <<>>,
             has_src |-> FALSE, src |-> <<>>]

ALT_PUMA == <<"PUMA", " ", "Running", " ", "Shoe">>
ALT_PRODUCT == <<"product", " ", "photo">>
ALT_LOGO == <<"logo">>

GalleryImgs ==
    {Img(TRUE, <<>>, u) : u \in {SRC_MARKED, SRC_MARKED_W100, SRC_PLAIN, SRC_W200}}
    \cup {Img(TRUE, ALT_PUMA, SRC_RELATIVE), ImgNoSrc}

AltImgs ==
    {Img(FALSE, ALT_PUMA, u) :
        u \in {SRC_MARKED, SRC_MARKED_W100, SRC_W199, SRC_W200, SRC_W201,
               SRC_W300_AMP, SRC_PLAIN, SRC_UPPER_SKU}}
    \cup {Img(FALSE, ALT_PRODUCT, u) : u \in {SRC_WAUTO, SRC_MARKED_WBAD, SRC_SKU}}
    \cup {Img(FALSE, ALT_LOGO, SRC_W201)}

Meta(c) == [has_content |-> TRUE, content |-> c]
MetaNoContent == [has_content |-> FALSE, content |-> <<>>]

MetaImages ==
    {Meta(u) : u \in {SRC_MARKED, SRC_PLAIN, SRC_LOGO, SRC_RELATIVE, SRC_SKU}}
    \cup {MetaNoContent}

TitleContents ==
    { <<"Running", " ", "Shoe", " ", "|", " ", "Namshi">>,
      <<"|", " ", "Namshi">>,
      <<" ", "|">>,
      <<>>,
      <<"Shoe">> }

TitleMetas == {<<>>, <<MetaNoContent>>} \cup {<<Meta(c)>> : c \in TitleContents}

LOOSE_TITLE_CLASS == <<"Title_", "productTitle", "__x1">>

H1s ==
    { [class |-> TITLE_CLASS, text |-> <<"Shoe", " ", "A">>],
      [class |-> TITLE_CLASS, text |-> <<"\n", " ">>],
      [class |-> LOOSE_TITLE_CLASS, text |-> <<" ", "Shoe", " ", "B">>],
      [class |-> <<"Banner_", "heading">>, text |-> <<"Sale">>] }

Spans ==
    { [class |-> PRICE_CLASS, text |-> <<"AED", " ", "199">>],
      [class |-> <<"Old_", "value", "__y">>, text |-> <<" ", "AED", " ", "250">>],
      [class |-> <<"Badge_", "label">>, text |-> <<"New">>] }

Buttons ==
    { [class |-> SIZE_CLASS, disabled |-> FALSE, text |-> <<"42">>],
      [class |-> SIZE_CLASS, disabled |-> TRUE, text |-> <<"43">>],
      [class |-> <<"Pills_", "size_variant", "__z">>, disabled |-> FALSE,
       text |-> <<" ", "44">>] }

EmptyPage ==
    [og_title |-> <<>>, h1 |-> <<>>, span |-> <<>>, button |-> <<>>,
     img |-> <<>>, og_image |-> <<>>]

NamePages ==
    {[EmptyPage EXCEPT !.og_title = t, !.h1 = h] :
        t \in TitleMetas, h \in SeqsUpTo(H1s, MaxH1)}

FieldPages ==
    {[EmptyPage EXCEPT !.span = sp, !.button = b] :
        sp \in SeqsUpTo(Spans, MaxSpans), b \in SeqsUpTo(Buttons, MaxButtons)}

ImagePages ==
    {[EmptyPage EXCEPT !.img = i] : i \in SeqsUpTo(GalleryImgs \cup AltImgs, MaxImgs)}

MetaPages ==
    {[EmptyPage EXCEPT !.og_image = m, !.img = i] :
        m \in SeqsUpTo(MetaImages, MaxMeta),
        i \in {<<>>, <<Img(FALSE, ALT_PUMA, SRC_W300_AMP)>>}}

Pages == NamePages \cup FieldPages \cup ImagePages \cup MetaPages

PRODUCT_URL ==
    <<"http", "s", "://", "www.", "namshi.com", "/", "uae-en", "/", "buy-shoe",
      "/", "123456", "/", "p", "/">>
PRODUCT_URL_TRACKED == PRODUCT_URL \o <<"?", "utm_source", "=", "x">>

----------------------------------------------------------------------------
(* extract_product_info, one action per step of lines 45-154 *)

NoRecord == [name |-> <<>>, price |-> <<>>, sizes |-> <<>>, image_urls |-> <<>>]

HandlerIdle ==
    /\ pc = "idle"
    /\ message_text = <<>>
    /\ product_info = NoRecord
    /\ idx = 0
    /\ media_group = <<>>
    /\ batch_start = 0
    /\ sent = <<>>
    /\ failures = 0

InitExtract ==
    /\ epc = "call"
    /\ url \in {PRODUCT_URL, PRODUCT_URL_TRACKED}
    /\ soup = EmptyPage
    /\ name = <<>>
    /\ price = <<>>
    /\ sizes = <<>>
    /\ image_urls = <<>>
    /\ result = NoRecord
    /\ requests = <<>>
    /\ HandlerIdle

PageRequest(u, ok) == [kind |-> "page", url |-> CleanUrl(u), ok |-> ok]

\* lines 48-59: one GET of the cleaned URL; a failure goes to the handler of line 147
E_Fetch ==
    /\ epc = "call"
    /\ \E fetched \in BOOLEAN :
          /\ requests' = Append(requests, PageRequest(url, fetched))
          /\ IF fetched
             THEN /\ \E page \in Pages : soup' = page
                  /\ epc' = "name"
             ELSE /\ soup' = soup
                  /\ epc' = "except"
    /\ UNCHANGED <<url, name, price, sizes, image_urls, result>>
    /\ UNCHANGED <<pc, message_text, product_info, idx, media_group, batch_start,
                   sent, failures>>

\* lines 61-71
E_Name ==
    /\ epc = "name"
    /\ name' = ProductName(soup)
    /\ epc' = "price"
    /\ UNCHANGED <<url, soup, price, sizes, image_urls, result>>
    /\ UNCHANGED hvars

\* lines 73-77
E_Price ==
    /\ epc = "price"
    /\ price' = ProductPrice(soup)
    /\ epc' = "sizes"
    /\ UNCHANGED <<url, soup, name, sizes, image_urls, result>>
    /\ UNCHANGED hvars

\* lines 79-87
E_Sizes ==
    /\ epc = "sizes"
    /\ sizes' = ProductSizes(soup)
    /\ epc' = "gallery"
    /\ UNCHANGED <<url, soup, name, price, image_urls, result>>
    /\ UNCHANGED hvars

\* lines 89-101
E_Gallery ==
    /\ epc = "gallery"
    /\ image_urls' = GalleryUrls(soup)
    /\ epc' = "meta"
    /\ UNCHANGED <<url, soup, name, price, sizes, result>>
    /\ UNCHANGED hvars

\* lines 103-110
E_Meta ==
    /\ epc = "meta"
    /\ image_urls' = IF image_urls = <<>> THEN MetaUrls(soup) ELSE image_urls
    /\ epc' = "alt"
    /\ UNCHANGED <<url, soup, name, price, sizes, result>>
    /\ UNCHANGED hvars

\* lines 112-126
E_Alt ==
    /\ epc = "alt"
    /\ IF image_urls # <<>>
       THEN /\ epc' = "resolve"
            /\ image_urls' = image_urls
       ELSE IF AltUrls(soup).raised
       THEN /\ epc' = "except"
            /\ image_urls' = image_urls
       ELSE /\ epc' = "resolve"
            /\ image_urls' = AltUrls(soup).urls
    /\ UNCHANGED <<url, soup, name, price, sizes, result>>
    /\ UNCHANGED hvars

\* lines 128-139
E_Resolve ==
    /\ epc = "resolve"
    /\ image_urls' = Resolve(image_urls)
    /\ epc' = "return"
    /\ UNCHANGED <<url, soup, name, price, sizes, result>>
    /\ UNCHANGED hvars

\* lines 141-146
E_Return ==
    /\ epc = "return"
    /\ result' = [name |-> name, price |-> price, sizes |-> sizes,
                  image_urls |-> image_urls]
    /\ epc' = "done"
    /\ UNCHANGED <<url, soup, name, price, sizes, image_urls>>
    /\ UNCHANGED hvars

\* lines 147-154
E_Except ==
    /\ epc = "except"
    /\ result' = ErrorRecord
    /\ epc' = "done"
    /\ UNCHANGED <<url, soup, name, price, sizes, image_urls>>
    /\ UNCHANGED hvars

NextExtract ==
    \/ E_Fetch
    \/ E_Name
    \/ E_Price
    \/ E_Sizes
    \/ E_Gallery
    \/ E_Meta
    \/ E_Alt
    \/ E_Resolve
    \/ E_Return
    \/ E_Except

SpecExtract == InitExtract /\ [][NextExtract]_vars

\* the stepwise function and the function applied at once agree
ExtractAgrees ==
    epc = "done" =>
        result = extract_product_info(requests[Len(requests)].ok, soup)

----------------------------------------------------------------------------
(* Properties of extract_product_info, checked under SpecExtract *)

NoDuplicates(s) == \A j, k \in 1..Len(s) : s[j] = s[k] => j = k

\* C7: in the image resolution step, if the filter removes every URL the output
\* is the deduplicated input, and a non-empty input never gives an empty output.
C7_RevertWhenFilterEmpties ==
    [][ (epc = "resolve" /\ epc' = "return") =>
            /\ FilterUrls(Dedup(image_urls)) = <<>> => image_urls' = Dedup(image_urls)
            /\ image_urls # <<>> => image_urls' # <<>> ]_vars

\* the step has reverted: a non-empty output none of whose URLs passes the filter
C7_Witness ==
    /\ epc = "return"
    /\ image_urls # <<>>
    /\ NoDuplicates(image_urls)
    /\ \A k \in 1..Len(image_urls) : ~LikelyProductImage(image_urls[k])

\* C8: the image resolution step is idempotent: applied to its own output it
\* returns that output unchanged.
C8_ResolveIdempotent ==
    epc = "return" => Resolve(image_urls) = image_urls

\* an output of two URLs that the filter has shortened
C8_Witness ==
    /\ epc = "return"
    /\ Len(image_urls) >= 2
    /\ \A k \in 1..Len(image_urls) : LikelyProductImage(image_urls[k])
    /\ \E k \in 1..Len(soup.img) : soup.img[k].has_src /\ ~LikelyProductImage(soup.img[k].src)

\* C9: the name of every record extract_product_info returns is non-empty.
C9_NameNeverEmpty ==
    epc = "done" => result.name # <<>>

\* the third strategy ran and returned (no earlier strategy found an image,
\* int() did not raise)
ThirdStrategyRan ==
    /\ epc = "resolve"
    /\ GalleryUrls(soup) = <<>>
    /\ MetaUrls(soup) = <<>>

Upgraded(elems) == [k \in 1..Len(elems) |-> UpgradeWidth(elems[k].src)]

HasWidth(e) == Contains(WIDTH, e.src)

\* the candidates the claim names as collected: a parsed width of 200 or more,
\* or a product-image marker (a candidate with neither a width nor a marker is
\* read as excluded, as the code has it)
C10_KeptAsClaimed(e) ==
    \/ HasProductMarker(e.src)
    \/ HasWidth(e) /\ WidthOf(e.src).ok /\ WidthOf(e.src).val >= 200

\* C10 as stated: a candidate of the third strategy is excluded only when its
\* parsed width is below 200 and it carries no marker; every other candidate is
\* collected, its width rewritten to 800 when it has one.
C10_AsStated ==
    ThirdStrategyRan =>
        image_urls = Upgraded(SelectSeq(AltCandidates(soup), C10_KeptAsClaimed))

\* the exclusion the code makes: no marker, and no width or a width of at most 200
C10_KeptAmended(e) ==
    \/ HasProductMarker(e.src)
    \/ HasWidth(e) /\ WidthOf(e.src).ok /\ WidthOf(e.src).val >= 201

\* C10 amended: when the third strategy returns, no candidate had a width that
\* int() rejects, and a candidate is excluded exactly when it carries no marker
\* and its width is absent or at most 200; every other candidate is collected,
\* its width rewritten to 800 when it has one.
C10_Amended ==
    ThirdStrategyRan =>
        /\ \A k \in 1..Len(AltCandidates(soup)) :
              HasWidth(AltCandidates(soup)[k]) => WidthOf(AltCandidates(soup)[k].src).ok
        /\ image_urls = Upgraded(SelectSeq(AltCandidates(soup), C10_KeptAmended))

\* a width of exactly 200 without a marker was excluded, a wider one collected
C10_Witness ==
    /\ ThirdStrategyRan
    /\ soup.img = <<Img(FALSE, ALT_PUMA, SRC_W200), Img(FALSE, ALT_PUMA, SRC_W300_AMP)>>
    /\ image_urls = <<CDN \o <<"/", "c", "?", "width=", "8", "0", "0">> >>

----------------------------------------------------------------------------
(* handle_message *)

PROCESSING == <<"Processing your Namshi product URL... Please wait.">>
GUIDANCE ==
    <<"Please send a valid Namshi product URL (e.g., https://www.namshi.com/uae-en/buy-product-name/product-id/p/)">>
ALL_SENT == <<"All product information has been sent!">>
\* the notice of the other fallback branch
NO_IMAGES_AsDownloadFailed == <<"Failed to download product images.">>
DOWNLOAD_FAILED == <<"Failed to download product images.">>
NO_IMAGES == <<"No product images found.">>
NO_SIZES == <<"No sizes available">>
BatchSize == 10

MaxImages == 21
MaxFail == 2

\* re.match(r'https?://(?:www\.)?namshi\.com/.*?/p/', url): anchored at the
\* start, '.' matches anything but a newline
is_namshi_url(t) ==
    \E scheme \in {<<"http", "://">>, <<"http", "s", "://">>} :
    \E www \in {<<>>, <<"www.">>} :
        LET prefix == scheme \o www \o <<"namshi.com", "/">>
        IN  /\ StartsWith(t, prefix)
            /\ \E j \in (Len(prefix) + 1)..Len(t) :
                  /\ MatchAt(P_MARK, t, j)
                  /\ \A m \in (Len(prefix) + 1)..(j - 1) : t[m] # "\n"

\* lines 179-184
DetailsText(info) ==
    LET sizes_text == IF info.sizes # <<>> THEN Join(<<", ">>, info.sizes) ELSE NO_SIZES
    IN  <<"*">> \o info.name \o <<"*\n\n">>
        \o <<"*Price:* ">> \o info.price \o <<"\n\n">>
        \o <<"*Available Sizes:* ">> \o sizes_text

\* line 197: details_text if i == 0 else "" (i counted from 1 here)
Caption(i, details_text) == IF i = 1 THEN details_text ELSE <<>>

\* lines 197-205: the photo stands for the bytes downloaded from image_url
MediaPhoto(image_url, i, details_text) ==
    [media |-> image_url,
     caption |-> Caption(i, details_text),
     parse_mode |-> IF i = 1 THEN "MARKDOWN" ELSE "None"]

Min(a, b) == IF a <= b THEN a ELSE b

\* a slice one item too long
Batch_Overlong(group, i) == SubSeq(group, i + 1, Min(i + BatchSize + 1, Len(group)))

\* line 218: media_group[i:i+10]
Batch(group, i) == SubSeq(group, i + 1, Min(i + BatchSize, Len(group)))

\* the calls made on the messaging client, in order, each with its outcome
ReplyText(text, mode, ok) ==
    [op |-> "reply_text", text |-> text, parse_mode |-> mode, media |-> <<>>,
     message_id |-> 0, ok |-> ok]
SendMediaGroup(media, ok) ==
    [op |-> "send_media_group", text |-> <<>>, parse_mode |-> "None", media |-> media,
     message_id |-> 0, ok |-> ok]
DeleteMessage(id, ok) ==
    [op |-> "delete_message", text |-> <<>>, parse_mode |-> "None", media |-> <<>>,
     message_id |-> id, ok |-> ok]

ImageRequest(u) == [kind |-> "image", url |-> u]

TwoDigits(k) == <<Digits[(k \div 10) + 1], Digits[(k % 10) + 1]>>

GalleryOf(n) == [k \in 1..n |-> Img(TRUE, <<>>, CDN \o P_MARK \o TwoDigits(k))]

ShoePage(n) ==
    [og_title |-> <<Meta(<<"Running", " ", "Shoe", " ", "|", " ", "Namshi">>)>>,
     h1 |-> <<>>,
     span |-> <<[class |-> PRICE_CLASS, text |-> <<"AED", " ", "199">>]>>,
     button |-> <<[class |-> SIZE_CLASS, disabled |-> FALSE, text |-> <<"42">>],
                  [class |-> SIZE_CLASS, disabled |-> FALSE, text |-> <<"43">>]>>,
     img |-> GalleryOf(n),
     og_image |-> <<>>]

DeliveryPages ==
    {ShoePage(n) : n \in 0..MaxImages}
    \cup {EmptyPage,
          [EmptyPage EXCEPT !.img = <<Img(FALSE, ALT_PRODUCT, SRC_WAUTO)>>],
          [EmptyPage EXCEPT !.img = <<Img(TRUE, <<>>, SRC_W200),
                                       Img(TRUE, <<>>, SRC_MARKED_W100),
                                       Img(TRUE, <<>>, SRC_W200)>>]}

Texts ==
    { PRODUCT_URL,
      PRODUCT_URL_TRACKED,
      <<"hello there">>,
      <<"see", " ">> \o PRODUCT_URL,
      <<"http", "s", "://", "www.", "namshi.com", "/", "uae-en", "/", "women", "/">>,
      <<"http", "s", "://", "namshi.com", "/", "p", "/">>,
      <<"http", "://", "shop.example", "/", "uae-en", "/", "p", "/">>,
      <<"http", "://", "namshi.com", "/", "uae-en", "\n", "/", "p", "/">> }

ExtractIdle ==
    /\ epc = "idle"
    /\ url = <<>>
    /\ soup = EmptyPage
    /\ name = <<>>
    /\ price = <<>>
    /\ sizes = <<>>
    /\ image_urls = <<>>
    /\ result = NoRecord

Init ==
    /\ pc = "start"
    /\ message_text \in Texts
    /\ product_info = NoRecord
    /\ idx = 0
    /\ media_group = <<>>
    /\ batch_start = 0
    /\ sent = <<>>
    /\ requests = <<>>
    /\ failures = 0
    /\ ExtractIdle

\* the processing notice sent before the text is classified
H_Receive_NoticeFirst ==
    /\ pc = "start"
    /\ \E ok \in BOOLEAN, ok2 \in BOOLEAN :
          LET notice == ReplyText(PROCESSING, "None", ok)
          IN  IF ~ok
              THEN /\ sent' = Append(sent, notice)
                   /\ pc' = "raised"
              ELSE IF is_namshi_url(message_text)
              THEN /\ sent' = Append(sent, notice)
                   /\ pc' = "extract"
              ELSE /\ sent' = sent \o <<notice, ReplyText(GUIDANCE, "None", ok2)>>
                   /\ pc' = IF ok2 THEN "done" ELSE "raised"
    /\ UNCHANGED <<message_text, product_info, idx, media_group, batch_start,
                   requests, failures>>
    /\ UNCHANGED evars

\* lines 168-173 and 239-242: classify the text, then the processing notice or
\* the guidance message; a send that raises leaves the handler
H_Receive ==
    /\ pc = "start"
    /\ \E ok \in BOOLEAN :
          IF is_namshi_url(message_text)
          THEN /\ sent' = Append(sent, ReplyText(PROCESSING, "None", ok))
               /\ pc' = IF ok THEN "extract" ELSE "raised"
          ELSE /\ sent' = Append(sent, ReplyText(GUIDANCE, "None", ok))
               /\ pc' = IF ok THEN "done" ELSE "raised"
    /\ UNCHANGED <<message_text, product_info, idx, media_group, batch_start,
                   requests, failures>>
    /\ UNCHANGED evars

\* line 176: the call of extract_product_info, with whatever page the fetch gives
H_Extract ==
    /\ pc = "extract"
    /\ \E fetched \in BOOLEAN :
       \E page \in IF fetched THEN DeliveryPages ELSE {EmptyPage} :
          /\ requests' = Append(requests, PageRequest(message_text, fetched))
          /\ product_info' = extract_product_info(fetched, page)
          /\ pc' = IF product_info'.image_urls # <<>> THEN "download" ELSE "text"
    /\ idx' = 1
    /\ media_group' = <<>>
    /\ UNCHANGED <<message_text, batch_start, sent, failures>>
    /\ UNCHANGED evars

\* lines 193-206 and 156-164: one turn of the download loop; download_image
\* returns the content, empty content, or None after an error, and only
\* non-empty content passes `if image_data`
H_Download ==
    /\ pc = "download"
    /\ \E outcome \in {"content", "empty", "error"} :
          /\ outcome # "content" => failures < MaxFail
          /\ failures' = IF outcome = "content" THEN failures ELSE failures + 1
          /\ media_group' =
                IF outcome = "content"
                THEN Append(media_group,
                            MediaPhoto(product_info.image_urls[idx], idx,
                                       DetailsText(product_info)))
                ELSE media_group
    /\ requests' = Append(requests, ImageRequest(product_info.image_urls[idx]))
    /\ idx' = idx + 1
    /\ pc' = IF idx < Len(product_info.image_urls) THEN "download"
             ELSE IF media_group' # <<>> THEN "send" ELSE "text"
    /\ UNCHANGED <<message_text, product_info, batch_start, sent>>
    /\ UNCHANGED evars

\* lines 208-222: one send_media_group call, the whole group when it has at
\* most 10 items, else the next batch
H_Send ==
    /\ pc = "send"
    /\ \E ok \in BOOLEAN :
          LET whole == Len(media_group) <= BatchSize
              batch == IF whole THEN media_group ELSE Batch(media_group, batch_start)
          IN  /\ sent' = Append(sent, SendMediaGroup(batch, ok))
              /\ batch_start' = IF ok /\ ~whole THEN batch_start + BatchSize
                                ELSE batch_start
              /\ pc' = IF ~ok THEN "raised"
                       ELSE IF whole \/ batch_start' >= Len(media_group) THEN "notify"
                       ELSE "send"
    /\ UNCHANGED <<message_text, product_info, idx, media_group, requests, failures>>
    /\ UNCHANGED evars

\* line 224
H_Notify ==
    /\ pc = "notify"
    /\ \E ok \in BOOLEAN :
          /\ sent' = Append(sent, ReplyText(ALL_SENT, "None", ok))
          /\ pc' = IF ok THEN "delete" ELSE "raised"
    /\ UNCHANGED <<message_text, product_info, idx, media_group, batch_start,
                   requests, failures>>
    /\ UNCHANGED evars

\* lines 227 and 231: the summary as a text message
H_Text ==
    /\ pc = "text"
    /\ \E ok \in BOOLEAN :
          /\ sent' = Append(sent, ReplyText(DetailsText(product_info), "MARKDOWN", ok))
          /\ pc' = IF ok THEN "notice" ELSE "raised"
    /\ UNCHANGED <<message_text, product_info, idx, media_group, batch_start,
                   requests, failures>>
    /\ UNCHANGED evars

\* lines 228 and 232: the notice of the branch taken at line 190
H_Notice ==
    /\ pc = "notice"
    /\ \E ok \in BOOLEAN :
          /\ sent' = Append(sent,
                ReplyText(IF product_info.image_urls # <<>> THEN DOWNLOAD_FAILED
                          ELSE NO_IMAGES, "None", ok))
          /\ pc' = IF ok THEN "delete" ELSE "raised"
    /\ UNCHANGED <<message_text, product_info, idx, media_group, batch_start,
                   requests, failures>>
    /\ UNCHANGED evars

\* lines 234-238: delete_message on the processing message (the first call made);
\* nothing catches its failure
H_Delete ==
    /\ pc = "delete"
    /\ \E ok \in BOOLEAN :
          /\ sent' = Append(sent, DeleteMessage(1, ok))
          /\ pc' = IF ok THEN "done" ELSE "raised"
    /\ UNCHANGED <<message_text, product_info, idx, media_group, batch_start,
                   requests, failures>>
    /\ UNCHANGED evars

Next ==
    \/ H_Receive
    \/ H_Extract
    \/ H_Download
    \/ H_Send
    \/ H_Notify
    \/ H_Text
    \/ H_Notice
    \/ H_Delete

Spec == Init /\ [][Next]_vars

----------------------------------------------------------------------------
(* Properties of handle_message, checked under Spec *)

IsGroup(c) == c.op = "send_media_group"
IsReply(c) == c.op = "reply_text"

\* the grouped-media calls made so far, in order
Groups == SelectSeq(sent, IsGroup)

RECURSIVE Flatten(_)
Flatten(groups) ==
    IF groups = <<>> THEN <<>> ELSE Head(groups).media \o Flatten(Tail(groups))

\* every photo handed to send_media_group so far, in order
Photos == Flatten(Groups)

Details == DetailsText(product_info)

Issued(text) == \E k \in 1..Len(sent) : IsReply(sent[k]) /\ sent[k].text = text

Delivered(text) ==
    \E k \in 1..Len(sent) : IsReply(sent[k]) /\ sent[k].text = text /\ sent[k].ok

\* C1: with at least one image URL, exactly one photo over all grouped-media
\* messages carries the caption, and it is the first one downloaded; with no
\* photo downloaded there is no grouped-media message and the caption goes out
\* as a text message.
C1_CaptionOnFirstDownloaded ==
    (pc = "delete" /\ product_info.image_urls # <<>>) =>
        IF media_group # <<>>
        THEN /\ Photos # <<>>
             /\ Photos[1].caption = Details
             /\ \A k \in 2..Len(Photos) : Photos[k].caption = <<>>
        ELSE /\ Groups = <<>>
             /\ Issued(Details)

SummaryDelivered ==
    \/ Delivered(Details)
    \/ \E k \in 1..Len(sent) :
          /\ IsGroup(sent[k])
          /\ sent[k].ok
          /\ \E j \in 1..Len(sent[k].media) : sent[k].media[j].caption = Details

ImagesDelivered == \E k \in 1..Len(sent) : IsGroup(sent[k]) /\ sent[k].ok

NoticeDelivered == Delivered(NO_IMAGES) \/ Delivered(DOWNLOAD_FAILED)

\* C2: once the processing notice has been sent, a handler that has ended has
\* delivered the product summary together with images or with a notice.
C2_NeverOnlyProcessing ==
    (pc \in {"done", "raised"} /\ Delivered(PROCESSING)) =>
        SummaryDelivered /\ (ImagesDelivered \/ NoticeDelivered)

IsPrefix(p, q) == Len(p) <= Len(q) /\ SubSeq(q, 1, Len(p)) = p

\* C3: the grouped-media sends are the downloaded photos cut into runs of 10:
\* none holds more than 10, all but the last issued hold exactly 10, together
\* they are a prefix of the downloaded sequence in its order, and once the
\* sends are over there are ceil(N/10) of them and together they are all of it.
C3_Batching ==
    /\ \A k \in 1..Len(Groups) :
          /\ Len(Groups[k].media) >= 1
          /\ Len(Groups[k].media) <= 10
          /\ k < Len(Groups) => Len(Groups[k].media) = 10
    /\ IsPrefix(Photos, media_group)
    /\ (Issued(ALL_SENT) /\ Len(media_group) >= 1) =>
          /\ Len(Groups) = (Len(media_group) + 9) \div 10
          /\ Photos = media_group

\* three sends: two full batches and a last one of a single photo
C3_Witness ==
    /\ Issued(ALL_SENT)
    /\ Len(media_group) = 21
    /\ Len(Groups) = 3
    /\ Len(Groups[3].media) = 1

\* C4: a failure of delete_message is not escalated: the handler still returns.
C4_DeleteBestEffort ==
    (\E k \in 1..Len(sent) : sent[k].op = "delete_message" /\ ~sent[k].ok) =>
        pc = "done"

FetchFailed ==
    \E k \in 1..Len(requests) : requests[k].kind = "page" /\ ~requests[k].ok

SentinelSummary ==
    <<"*", "Error extracting product name", "*\n\n", "*Price:* ",
      "Error extracting price", "\n\n", "*Available Sizes:* ", "No sizes available">>

\* what each call made so far was, whatever its outcome
CallsMade ==
    [k \in 1..Len(sent) |->
        [op |-> sent[k].op, text |-> sent[k].text, message_id |-> sent[k].message_id]]

\* C5: when the page fetch fails the record is all-sentinel, no image is
\* requested, no grouped-media message is sent, and what follows the
\* processing notice is the sentinel summary as text, then the notice
\* "No product images found.", then the removal of the processing notice.
C5_FetchErrorDelivery ==
    FetchFailed =>
        /\ product_info = [name |-> NAME_ERROR, price |-> PRICE_ERROR,
                           sizes |-> <<>>, image_urls |-> <<>>]
        /\ Len(requests) = 1
        /\ Groups = <<>>
        /\ IsPrefix(CallsMade,
              << [op |-> "reply_text", text |-> PROCESSING, message_id |-> 0],
                 [op |-> "reply_text", text |-> SentinelSummary, message_id |-> 0],
                 [op |-> "reply_text", text |-> <<"No product images found.">>,
                  message_id |-> 0],
                 [op |-> "delete_message", text |-> <<>>, message_id |-> 1] >>)
        /\ pc \in {"text", "notice", "delete", "done", "raised"}
        /\ pc = "text" => Len(sent) = 1
        /\ pc = "notice" => Len(sent) = 2
        /\ pc = "delete" => Len(sent) = 3
        /\ pc = "done" => Len(sent) = 4
        /\ pc = "raised" => ~sent[Len(sent)].ok

C5_Witness == FetchFailed /\ pc = "done"

\* C6: for a text that is not an eligible URL the handler makes one call, the
\* guidance message, and nothing else: no HTTP request, no processing notice,
\* no grouped-media send, no delete_message.
C6_GuidanceOnly ==
    (pc # "start" /\ ~is_namshi_url(message_text)) =>
        /\ pc \in {"done", "raised"}
        /\ requests = <<>>
        /\ Len(sent) = 1
        /\ IsReply(sent[1])
        /\ sent[1].text = GUIDANCE
        /\ product_info = NoRecord
        /\ media_group = <<>>

C6_Witness ==
    /\ pc = "done"
    /\ message_text = <<"hello there">>
    /\ sent = <<ReplyText(GUIDANCE, "None", TRUE)>>

====
